---- MODULE Spec2Model ----
(***************************************************************************)
(* Model of the rhythm game: the judgment engine (src/js/game-engine.js)   *)
(* and the application that creates engines and schedules their start      *)
(* (main module, src/unnamed/part_001), the chart generator                *)
(* (src/unnamed/part_000) and the onset detection of the audio analyzer    *)
(* (src/unnamed/part_001).                                                 *)
(*                                                                         *)
(* Engine and application time is counted in units of 50 ms, so that the   *)
(* judgment windows 0.05 / 0.10 / 0.15 s are 1 / 2 / 3 units.  Every clock *)
(* the program reads (audioContext.currentTime) advances at the rate of    *)
(* `now`.  Note and onset times of the chart generator and of the analyzer *)
(* are in milliseconds; Math.random() and the difficulty level are in      *)
(* hundredths.                                                             *)
(* Fields that only feed the rendering (touchStates, canvas geometry) are  *)
(* left out.  The desktop branch of App.startGame is modelled (isMobile    *)
(* false): the chart is handed to the engine as it is.                     *)
(***************************************************************************)
EXTENDS Integers, Sequences, FiniteSets, TLC

VARIABLES
    engines,   \* the GameEngine instances, in order of construction
    app,       \* the fields of App, its pending async tasks and timers
    now,       \* the audio hardware clock
    generator, \* the ChartGenerator call in progress: its arguments, locals and result
    analyzer   \* the AudioAnalyzer call in progress: its arguments, locals and result

vars == <<engines, app, now, generator, analyzer>>

-----------------------------------------------------------------------------
(* Program constants, in units of 50 ms where they are times *)

PerfectWindow == 1
GreatWindow == 2
GoodWindow == 3
NoteAppearTime == 40
ManualOffset == 1
StartDelay == 20
EndDelay == 10
LaneCount == 4

(* Bounds of the model *)

MaxClock == 46      \* the clock stops advancing here
MaxEngines == 2     \* calls of App that end in startGame
MaxOnsets == 5      \* bass onsets given to generateFromBands
MaxNotes == 3       \* notes in a list given to cleanupNotes or adjustDifficulty
MaxPasses == 2      \* cleanupNotes calls in a row on its own output
MaxFrames == 16     \* analysis frames of the audio given to detectOnsetsByBand
MaxBlock == 6       \* samples in a block given to fft
MaxTail == 6        \* flux values after the lead-in of a list given to extractOnsetsFromFlux

Lanes == 0 .. (LaneCount - 1)

\* audioContext.baseLatency + outputLatency, fixed when the engine is constructed
Latencies == {0, 1}

\* the keys the player uses, as lane indices of laneKeys (touches use every lane)
Keys == {0}

\* the songs saved in the chart cache when the application starts
SavedSongs == {3}

\* the audio files the user can choose in the file input
AudioFiles == {4}

\* the sessions of Init: the song, and the deadlines of the start timers that
\* are still pending when the first one has fired
Sessions ==
    { [song |-> 1, timers |-> <<>>],
      [song |-> 1, timers |-> <<8>>],
      [song |-> 2, timers |-> <<>>] }

Note(t, l) == [time |-> t, lane |-> l]

(* The songs of the model: a chart as ChartGenerator produces it (sorted   *)
(* by time, same-lane notes at least 0.1 s apart) and the duration of the  *)
(* audio it was derived from.                                              *)
(* Song 4 is audio without a bass onset: generateFromBands yields the empty *)
(* chart for it.                                                           *)
Songs ==
    << [chart |-> <<Note(2, 0), Note(4, 0), Note(4, 1)>>, duration |-> 6],
       [chart |-> <<Note(41, 2)>>, duration |-> 43],
       [chart |-> <<Note(2, 0)>>, duration |-> 12],
       [chart |-> <<>>, duration |-> 4] >>

SongIds == DOMAIN Songs

-----------------------------------------------------------------------------
(* Helpers *)

\* no ChartGenerator / AudioAnalyzer call is in progress
NoCall == [pc |-> "idle"]

Abs(x) == IF x < 0 THEN -x ELSE x

\* Math.max that returns its first argument
MaxFirst(a, b) == a

Max(a, b) == IF a >= b THEN a ELSE b

-----------------------------------------------------------------------------
(* GameEngine *)

\* setChart that keeps the note objects it is given and sets the flags on them
setChartInPlace(notes) ==
    [i \in DOMAIN notes |->
        [time |-> notes[i].time, lane |-> notes[i].lane,
         hit |-> FALSE, missed |-> FALSE, given |-> TRUE]]

\* setChart: the engine's own copies of the notes ({...note}), with the two
\* flags; given tells whether the object is the one of the array passed in
setChart(notes) ==
    [i \in DOMAIN notes |->
        [time |-> notes[i].time, lane |-> notes[i].lane,
         hit |-> FALSE, missed |-> FALSE, given |-> FALSE]]

\* constructor followed by setChart and the callbacks, as in App.startGame: the
\* notes of the chart, the audio buffer and the latency of the analyzer's context
NewEngine(chart, buffer, latency) ==
    [ chart        |-> chart,    \* history: the chart passed to setChart
      notes        |-> setChart(Songs[chart].chart),
      activeNotes  |-> <<>>,
      score        |-> 0,
      combo        |-> 0,
      maxCombo     |-> 0,
      judgeCount   |-> [perfect |-> 0, great |-> 0, good |-> 0, miss |-> 0],
      isPlaying    |-> FALSE,
      startTime    |-> 0,
      audioLatency |-> latency,
      audioBuffer  |-> buffer,
      keyStates    |-> [k \in Lanes |-> FALSE],
      sources      |-> <<>>,     \* the buffer sources created by start()
      rafPending   |-> 0,        \* requestAnimationFrame callbacks pending
      stopped      |-> FALSE,    \* history: stop() has been called
      sessionStopped |-> FALSE,  \* history: stop() has been called since the last start()
      emitted      |-> 0 ]       \* history: onGameEnd calls since the last start()

\* getCurrentTime without the latency of the audio output
getCurrentTimeNoLatency(e, t) == t - e.startTime - ManualOffset

getCurrentTime(e, t) == t - e.startTime - e.audioLatency - ManualOffset

\* registerMiss that leaves the combo as it is
registerMissKeepsCombo(e) ==
    [e EXCEPT !.judgeCount.miss = @ + 1]

\* registerMiss that also clears maxCombo
registerMissClearsMax(e) ==
    [e EXCEPT !.combo = 0, !.maxCombo = 0, !.judgeCount.miss = @ + 1]

registerMiss(e) ==
    [e EXCEPT !.combo = 0, !.judgeCount.miss = @ + 1]

\* update that skips only the notes already missed
IsResolvedMissedOnly(note) == note.missed

\* update: a note already hit or missed is skipped
IsResolved(note) == note.hit \/ note.missed

\* update that also expires a note exactly at the edge of the good window
IsExpiredAtEdge(timeDiff) == timeDiff <= -GoodWindow

\* update: the note is past the good window
IsExpired(timeDiff) == timeDiff < -GoodWindow

\* update: the note is within the lookahead
IsVisible(timeDiff) == timeDiff < NoteAppearTime

RECURSIVE updateFrom(_, _, _, _)
updateFrom(e, currentTime, i, active) ==
    IF i > Len(e.notes) THEN [e EXCEPT !.activeNotes = active]
    ELSE LET note == e.notes[i]
             timeDiff == note.time - currentTime
         IN  IF IsResolved(note)
             THEN updateFrom(e, currentTime, i + 1, active)
             ELSE IF IsExpired(timeDiff)
             THEN updateFrom(registerMiss([e EXCEPT !.notes[i].missed = TRUE]),
                             currentTime, i + 1, active)
             ELSE updateFrom(e, currentTime, i + 1,
                             IF IsVisible(timeDiff) THEN Append(active, i) ELSE active)

update(e, currentTime) == updateFrom(e, currentTime, 1, <<>>)

\* gameLoop that does not request the next frame
gameLoopOnce(e, t) ==
    IF ~e.isPlaying THEN e
    ELSE update(e, getCurrentTime(e, t))

\* gameLoop: nothing when not playing, else one update and the next frame request
gameLoop(e, t) ==
    IF ~e.isPlaying THEN e
    ELSE [update(e, getCurrentTime(e, t)) EXCEPT !.rafPending = @ + 1]

\* start() that clears only the hit flag
resetNoteHitOnly(note) == [note EXCEPT !.hit = FALSE]

resetNote(note) == [note EXCEPT !.hit = FALSE, !.missed = FALSE]

\* start() that keeps the counters of the session before
startKeepsCounts(e, t) ==
    LET reset == [e EXCEPT
                    !.score = 0, !.combo = 0, !.maxCombo = 0,
                    !.notes = [i \in DOMAIN e.notes |-> resetNote(e.notes[i])],
                    !.activeNotes = <<>>,
                    !.sources = Append(@, [st |-> "playing", at |-> t]),
                    !.startTime = t,
                    !.isPlaying = TRUE,
                    !.sessionStopped = FALSE,
                    !.emitted = 0]
    IN  gameLoop(reset, t)

start(e, t) ==
    LET reset == [e EXCEPT
                    !.score = 0, !.combo = 0, !.maxCombo = 0,
                    !.judgeCount = [perfect |-> 0, great |-> 0, good |-> 0, miss |-> 0],
                    !.notes = [i \in DOMAIN e.notes |-> resetNote(e.notes[i])],
                    !.activeNotes = <<>>,
                    !.sources = Append(@, [st |-> "playing", at |-> t]),
                    !.startTime = t,
                    !.isPlaying = TRUE,
                    !.sessionStopped = FALSE,
                    !.emitted = 0]
    IN  gameLoop(reset, t)

\* classification with exclusive window bounds
JudgmentExclusive(closestDiff) ==
    IF closestDiff < PerfectWindow THEN "perfect"
    ELSE IF closestDiff < GreatWindow THEN "great"
    ELSE IF closestDiff < GoodWindow THEN "good"
    ELSE "none"

\* the classification of judgeNote / judgeNoteMultiLane
Judgment(closestDiff) ==
    IF closestDiff <= PerfectWindow THEN "perfect"
    ELSE IF closestDiff <= GreatWindow THEN "great"
    ELSE IF closestDiff <= GoodWindow THEN "good"
    ELSE "none"

BaseScore(judgment) ==
    CASE judgment = "perfect" -> 1000
      [] judgment = "great"   -> 500
      [] judgment = "good"    -> 100
      [] OTHER                -> 0

\* combo bonus computed from the combo before the increment
ComboBonusBefore(combo) == (combo - 1) * 10

ComboBonus(combo) == combo * 10

\* search that keeps the first eligible note instead of the closest
RECURSIVE closestInLaneFirst(_, _, _, _, _)
closestInLaneFirst(e, laneIndex, currentTime, k, closest) ==
    IF k > Len(e.activeNotes) THEN closest
    ELSE LET idx == e.activeNotes[k]
             note == e.notes[idx]
             diff == Abs(note.time - currentTime)
         IN  IF note.lane # laneIndex \/ note.hit
             THEN closestInLaneFirst(e, laneIndex, currentTime, k + 1, closest)
             ELSE IF closest.note = 0
             THEN closestInLaneFirst(e, laneIndex, currentTime, k + 1,
                                     [note |-> idx, diff |-> diff])
             ELSE closestInLaneFirst(e, laneIndex, currentTime, k + 1, closest)

\* judgeNote, lines 529-537: closest = [note |-> index or 0 (null), diff |-> ...]
RECURSIVE closestInLane(_, _, _, _, _)
closestInLane(e, laneIndex, currentTime, k, closest) ==
    IF k > Len(e.activeNotes) THEN closest
    ELSE LET idx == e.activeNotes[k]
             note == e.notes[idx]
             diff == Abs(note.time - currentTime)
         IN  IF note.lane # laneIndex \/ note.hit
             THEN closestInLane(e, laneIndex, currentTime, k + 1, closest)
             ELSE IF closest.note = 0 \/ diff < closest.diff
             THEN closestInLane(e, laneIndex, currentTime, k + 1,
                                [note |-> idx, diff |-> diff])
             ELSE closestInLane(e, laneIndex, currentTime, k + 1, closest)

judgeNote(e, laneIndex, t) ==
    LET currentTime == getCurrentTime(e, t)
        closest == closestInLane(e, laneIndex, currentTime, 1, [note |-> 0, diff |-> 0])
        judgment == Judgment(closest.diff)
        combo == e.combo + 1
    IN  IF closest.note = 0 THEN e
        ELSE IF judgment = "none" THEN e
        ELSE [e EXCEPT
                !.notes[closest.note].hit = TRUE,
                !.combo = combo,
                !.maxCombo = Max(@, combo),
                !.judgeCount[judgment] = @ + 1,
                !.score = @ + BaseScore(judgment) + ComboBonus(combo)]

\* search over the lanes that lets a later note at the same distance replace
\* the closest one
RECURSIVE closestInLanesLast(_, _, _, _, _)
closestInLanesLast(e, laneIndices, currentTime, k, closest) ==
    IF k > Len(e.activeNotes) THEN closest
    ELSE LET idx == e.activeNotes[k]
             note == e.notes[idx]
             diff == Abs(note.time - currentTime)
         IN  IF note.lane \notin laneIndices \/ note.hit
             THEN closestInLanesLast(e, laneIndices, currentTime, k + 1, closest)
             ELSE IF closest.note = 0 \/ diff <= closest.diff
             THEN closestInLanesLast(e, laneIndices, currentTime, k + 1,
                                     [note |-> idx, diff |-> diff])
             ELSE closestInLanesLast(e, laneIndices, currentTime, k + 1, closest)

\* judgeNoteMultiLane, lines 578-586
RECURSIVE closestInLanes(_, _, _, _, _)
closestInLanes(e, laneIndices, currentTime, k, closest) ==
    IF k > Len(e.activeNotes) THEN closest
    ELSE LET idx == e.activeNotes[k]
             note == e.notes[idx]
             diff == Abs(note.time - currentTime)
         IN  IF note.lane \notin laneIndices \/ note.hit
             THEN closestInLanes(e, laneIndices, currentTime, k + 1, closest)
             ELSE IF closest.note = 0 \/ diff < closest.diff
             THEN closestInLanes(e, laneIndices, currentTime, k + 1,
                                 [note |-> idx, diff |-> diff])
             ELSE closestInLanes(e, laneIndices, currentTime, k + 1, closest)

judgeNoteMultiLane(e, laneIndices, t) ==
    LET currentTime == getCurrentTime(e, t)
        closest == closestInLanes(e, laneIndices, currentTime, 1, [note |-> 0, diff |-> 0])
        judgment == Judgment(closest.diff)
        combo == e.combo + 1
    IN  IF closest.note = 0 THEN e
        ELSE IF judgment = "none" THEN e
        ELSE [e EXCEPT
                !.notes[closest.note].hit = TRUE,
                !.combo = combo,
                !.maxCombo = Max(@, combo),
                !.judgeCount[judgment] = @ + 1,
                !.score = @ + BaseScore(judgment) + ComboBonus(combo)]

\* the keydown listener of setupInput
keydown(e, key, t) ==
    IF ~e.isPlaying THEN e
    ELSE IF key \in Lanes /\ ~e.keyStates[key]
    THEN judgeNote([e EXCEPT !.keyStates[key] = TRUE], key, t)
    ELSE e

\* the keyup listener of setupInput
keyup(e, key) == [e EXCEPT !.keyStates[key] = FALSE]

\* the touchstart listener of setupInput, for one touch in lane displayLane
touchstart(e, displayLane, t) ==
    IF ~e.isPlaying THEN e
    ELSE IF displayLane >= 0 /\ displayLane < LaneCount
    THEN judgeNote(e, displayLane, t)
    ELSE e

\* the argument end() passes to onGameEnd
Result(e) ==
    [ score      |-> e.score,
      maxCombo   |-> e.maxCombo,
      perfect    |-> e.judgeCount.perfect,
      great      |-> e.judgeCount.great,
      good       |-> e.judgeCount.good,
      miss       |-> e.judgeCount.miss,
      totalNotes |-> Len(e.notes) ]

\* end(): onGameEnd is set by App.startGame on every engine, so it is always called
end(e) == [e EXCEPT !.isPlaying = FALSE, !.emitted = @ + 1]

\* AudioBufferSourceNode.stop(): a playing source stops, and its ended event is due
stopSource(src) == IF src.st = "playing" THEN [src EXCEPT !.st = "stopped"] ELSE src

stop(e) ==
    LET halted == [e EXCEPT !.isPlaying = FALSE, !.stopped = TRUE,
                            !.sessionStopped = TRUE]
    IN  IF Len(e.sources) > 0
        THEN [halted EXCEPT !.sources[Len(e.sources)] = stopSource(@)]
        ELSE halted

-----------------------------------------------------------------------------
(* App *)

\* showResult: the result screen, and the summary written to resultStats
showResult(a, result) == [a EXCEPT !.screen = "result", !.resultStats = result]

\* startGame: nothing without a chart; else a new engine on the analyzer's
\* context and buffer, the chart set, and the start timer
startGame(es, a, latency, t) ==
    IF a.chart = 0 THEN [engines |-> es, app |-> a]
    ELSE [ engines |-> Append(es, NewEngine(a.chart, a.audioBuffer, latency)),
           app     |-> [a EXCEPT !.screen = "game",
                                 !.gameEngine = Len(es) + 1,
                                 !.startTimers = Append(@, t + StartDelay)] ]

backToTitle(es, a) ==
    [ engines |-> IF a.gameEngine # 0
                  THEN [es EXCEPT ![a.gameEngine] = stop(@)]
                  ELSE es,
      app     |-> [a EXCEPT !.screen = "title"] ]

-----------------------------------------------------------------------------
(* ChartGenerator.  Times are in milliseconds here (0.1 s = 100, 0.2 s =    *)
(* 200); a value of Math.random() is given in hundredths, a difficulty      *)
(* level too.  The times of the model avoid the half-way cases of           *)
(* toFixed(2), where the result depends on the binary value of the number.  *)

GeneratorLanes == 4
RecentWindow == 200
MinSpacing == 100
BaseKeepRatio == 30
KeepRatioSpan == 70
FullLevel == 100

\* the values Math.random() takes in the model, in hundredths: the two ends of
\* its range [0, 1)
RandomDraws == {0, 99}

\* Math.floor(Math.random() * n)
RandomIndex(random, n) == (random * n) \div 100

\* the recent-note test with a window of 0.1 s
IsRecentShort(diff) == diff < 100

\* selectLaneForBass, line 33: the note is recent
IsRecent(diff) == diff < RecentWindow

\* the lanes of the recent notes
usedLanes(existingNotes, time) ==
    { existingNotes[k].lane : k \in { j \in DOMAIN existingNotes :
                                        IsRecent(time - existingNotes[j].time) } }

\* the k-th element (from 0) of the free lanes in ascending order
RECURSIVE NthLane(_, _)
NthLane(available, k) ==
    LET least == CHOOSE l \in available : \A m \in available : l <= m
    IN  IF k = 0 THEN least ELSE NthLane(available \ {least}, k - 1)

\* a lane choice that does not look at the recent notes
selectLaneForBassAnyLane(existingNotes, time, random) ==
    RandomIndex(random, GeneratorLanes)

selectLaneForBass(existingNotes, time, random) ==
    LET availableLanes == (0 .. (GeneratorLanes - 1)) \ usedLanes(existingNotes, time)
    IN  IF availableLanes # {}
        THEN NthLane(availableLanes, RandomIndex(random, Cardinality(availableLanes)))
        ELSE RandomIndex(random, GeneratorLanes)

\* insertion that puts a note before the notes of the same time
RECURSIVE insertByTimeBeforeTies(_, _)
insertByTimeBeforeTies(sorted, note) ==
    IF sorted = <<>> THEN <<note>>
    ELSE IF Head(sorted).time < note.time
    THEN <<Head(sorted)>> \o insertByTimeBeforeTies(Tail(sorted), note)
    ELSE <<note>> \o sorted

\* Array.prototype.sort is stable: a note goes after the notes of the same time
RECURSIVE insertByTime(_, _)
insertByTime(sorted, note) ==
    IF sorted = <<>> THEN <<note>>
    ELSE IF Head(sorted).time <= note.time
    THEN <<Head(sorted)>> \o insertByTime(Tail(sorted), note)
    ELSE <<note>> \o sorted

\* cleanupNotes without the sort
sortByTimeNone(notes) == notes

\* notes.sort((a, b) => a.time - b.time)
RECURSIVE sortByTime(_)
sortByTime(notes) ==
    IF notes = <<>> THEN <<>>
    ELSE insertByTime(sortByTime(SubSeq(notes, 1, Len(notes) - 1)), notes[Len(notes)])

\* time.toFixed(2), in hundredths of a second, for a time >= 0
ToFixed2(time) == (time + 5) \div 10

\* the key of the seen set of cleanupNotes
NoteKey(note) == <<ToFixed2(note.time), note.lane>>

\* cleanupNotes, lines 98-107
RECURSIVE dedupe(_, _, _, _)
dedupe(notes, k, seen, cleaned) ==
    IF k > Len(notes) THEN cleaned
    ELSE IF NoteKey(notes[k]) \in seen
    THEN dedupe(notes, k + 1, seen, cleaned)
    ELSE dedupe(notes, k + 1, seen \cup {NoteKey(notes[k])}, Append(cleaned, notes[k]))

\* lastTimeByLane[note.lane] || -Infinity: no entry, or an entry that is 0, counts
\* as no last time
HasLastTime(entry) == entry.set /\ entry.time # 0

RECURSIVE filterCloseFrom(_, _, _, _)
filterCloseFrom(notes, k, lastTimeByLane, result) ==
    IF k > Len(notes) THEN result
    ELSE LET note == notes[k]
             entry == lastTimeByLane[note.lane]
         IN  IF ~HasLastTime(entry) \/ note.time - entry.time >= MinSpacing
             THEN filterCloseFrom(notes, k + 1,
                                  [lastTimeByLane EXCEPT ![note.lane] =
                                      [set |-> TRUE, time |-> note.time]],
                                  Append(result, note))
             ELSE filterCloseFrom(notes, k + 1, lastTimeByLane, result)

filterCloseNotes(notes) ==
    filterCloseFrom(notes, 1,
                    [l \in { notes[k].lane : k \in DOMAIN notes } |->
                        [set |-> FALSE, time |-> 0]],
                    <<>>)

cleanupNotes(notes) ==
    filterCloseNotes(dedupe(sortByTime(notes), 1, {}, <<>>))

\* the onsets of every band as note times
NoteAnchorsAllBands(bandOnsets) ==
    bandOnsets.bass \o bandOnsets.midLow \o bandOnsets.midHigh \o bandOnsets.high

\* generateFromBands, line 19: the times the notes are placed at
NoteAnchors(bandOnsets) == bandOnsets.bass

\* the forEach of generateFromBands: randoms[k] is the value Math.random()
\* returns in the k-th call of selectLaneForBass
RECURSIVE placeNotes(_, _, _, _)
placeNotes(anchors, randoms, k, notes) ==
    IF k > Len(anchors) THEN notes
    ELSE placeNotes(anchors, randoms, k + 1,
                    Append(notes, Note(anchors[k],
                                       selectLaneForBass(notes, anchors[k], randoms[k]))))

\* the duration argument of generateFromBands is not used
generateFromBands(bandOnsets, randoms) ==
    cleanupNotes(placeNotes(NoteAnchors(bandOnsets), randoms, 1, <<>>))

\* 0.3 + level * 0.7, in hundredths
KeepRatio(level) == BaseKeepRatio + (level * KeepRatioSpan) \div 100

\* notes.filter(() => Math.random() < keepRatio): randoms[k] is the value drawn
\* for the k-th note
RECURSIVE keepNotes(_, _, _, _, _)
keepNotes(notes, keepRatio, randoms, k, kept) ==
    IF k > Len(notes) THEN kept
    ELSE keepNotes(notes, keepRatio, randoms, k + 1,
                   IF randoms[k] < keepRatio THEN Append(kept, notes[k]) ELSE kept)

\* adjustDifficulty that collects the kept notes in reverse order
RECURSIVE keepNotesReversed(_, _, _, _, _)
keepNotesReversed(notes, keepRatio, randoms, k, kept) ==
    IF k > Len(notes) THEN kept
    ELSE keepNotesReversed(notes, keepRatio, randoms, k + 1,
                           IF randoms[k] < keepRatio THEN <<notes[k]>> \o kept ELSE kept)

adjustDifficultyReversed(notes, level, randoms) ==
    IF level >= FullLevel THEN notes
    ELSE keepNotesReversed(notes, KeepRatio(level), randoms, 1, <<>>)

adjustDifficulty(notes, level, randoms) ==
    IF level >= FullLevel THEN notes
    ELSE keepNotes(notes, KeepRatio(level), randoms, 1, <<>>)

-----------------------------------------------------------------------------
(* AudioAnalyzer.  Times are in milliseconds.  The spectrum of a frame is   *)
(* given by its four band sums (the loop of lines 549-557 over the result   *)
(* of fft); flux values are whole numbers.                                  *)

fftSize == 1024
hopSize == 512
chunkSize == 200
windowSize == 10

\* audioBuffer.sampleRate: a hop of 512 samples is 32 ms
SampleRate == 16000

Bands == {"bass", "midLow", "midHigh", "high"}

\* the minimum intervals detectOnsetsByBand passes to extractOnsetsFromFlux
MinInterval == [bass |-> 120, midLow |-> 100, midHigh |-> 100, high |-> 80]

\* a value passed to onProgress: the quotient num / den as JavaScript computes
\* it, a number only when den is not 0 (0 / 0 is NaN)
Quotient(num, den) == [num |-> num, den |-> den]

\* Math.floor((channelData.length - fftSize) / hopSize)
TotalIterations(length) == (length - fftSize) \div hopSize

\* filterCloseOnsets that keeps every onset
RECURSIVE filterCloseOnsetsKeepAll(_, _)
filterCloseOnsetsKeepAll(onsets, minInterval) ==
    IF onsets = <<>> THEN <<>>
    ELSE Append(filterCloseOnsetsKeepAll(SubSeq(onsets, 1, Len(onsets) - 1), minInterval),
                onsets[Len(onsets)])

\* an onset is kept when it is at least minInterval after the last kept one
RECURSIVE filterCloseOnsets(_, _)
filterCloseOnsets(onsets, minInterval) ==
    IF onsets = <<>> THEN <<>>
    ELSE IF Len(onsets) = 1 THEN onsets
    ELSE LET filtered == filterCloseOnsets(SubSeq(onsets, 1, Len(onsets) - 1), minInterval)
             onset == onsets[Len(onsets)]
         IN  IF onset - filtered[Len(filtered)] >= minInterval
             THEN Append(filtered, onset)
             ELSE filtered

\* the sum of the flux values of the entries from (0-based) to - 1
RECURSIVE localSum(_, _, _)
localSum(fluxData, from, to) ==
    IF from >= to THEN 0
    ELSE fluxData[from + 1].flux + localSum(fluxData, from + 1, to)

\* the peak test without the adaptive threshold
IsPeakNoThreshold(fluxData, i) ==
    /\ fluxData[i + 1].flux > fluxData[i].flux
    /\ fluxData[i + 1].flux >= fluxData[i + 2].flux

\* extractOnsetsFromFlux, lines 672-678, for the 0-based index i:
\* flux > localMean * 1.5 + 0.001, with localMean = localSum / 10
IsPeak(fluxData, i) ==
    /\ fluxData[i + 1].flux * 20000 > localSum(fluxData, i - windowSize, i) * 3000 + 20
    /\ fluxData[i + 1].flux > fluxData[i].flux
    /\ fluxData[i + 1].flux >= fluxData[i + 2].flux

RECURSIVE peaksFrom(_, _, _)
peaksFrom(fluxData, i, peaks) ==
    IF ~(i < Len(fluxData) - 1) THEN peaks
    ELSE peaksFrom(fluxData, i + 1,
                   IF IsPeak(fluxData, i) THEN Append(peaks, fluxData[i + 1].time) ELSE peaks)

extractOnsetsFromFlux(fluxData, minInterval) ==
    IF Len(fluxData) = 0 THEN <<>>
    ELSE filterCloseOnsets(peaksFrom(fluxData, windowSize, <<>>), minInterval)

\* A JavaScript number: a whole number, or NaN
Num(v) == [nan |-> FALSE, v |-> v]

NaN == [nan |-> TRUE, v |-> 0]

Add(a, b) == IF a.nan \/ b.nan THEN NaN ELSE Num(a.v + b.v)

Sub(a, b) == IF a.nan \/ b.nan THEN NaN ELSE Num(a.v - b.v)

Mul(a, b) == IF a.nan \/ b.nan THEN NaN ELSE Num(a.v * b.v)

\* reading a Float32Array at idx: undefined outside the array, which the
\* arithmetic of fft turns into NaN
ReadAt(array, idx) == IF idx \in DOMAIN array THEN array[idx] ELSE NaN

\* writing a Float32Array at idx: ignored outside the array
WriteAt(array, idx, value) ==
    IF idx \in DOMAIN array THEN [array EXCEPT ![idx] = value] ELSE array

\* the number of k = 0, 1, ... with k < Math.log2(n), for n >= 1
RECURSIVE BitCount(_, _)
BitCount(n, k) == IF 2 ^ k >= n THEN k ELSE BitCount(n, k + 1)

\* fft, lines 613-618: j after the loop over k
RECURSIVE reverseBits(_, _, _)
reverseBits(x, bits, j) ==
    IF bits = 0 THEN j ELSE reverseBits(x \div 2, bits - 1, 2 * j + (x % 2))

\* fft, lines 609-620: real after the bit-reversal copy of data (0-based)
bitReversed(data) ==
    LET n == Len(data)
        target(i) == reverseBits(i, BitCount(n, 0), 0)
    IN  [ j \in 0 .. (n - 1) |->
            IF \E i \in 0 .. (n - 1) : target(i) = j
            THEN Num(data[(CHOOSE i \in 0 .. (n - 1) : target(i) = j) + 1])
            ELSE Num(0) ]

\* Math.cos and Math.sin of -2 pi j / size, for the sizes 2 and 4 (blocks of
\* fewer than 8 samples), where they are 1, 0 or -1
Cos(size, j) == IF j = 0 THEN Num(1) ELSE Num(0)

Sin(size, j) == IF j = 0 THEN Num(0) ELSE Num(-1)

\* fft, lines 629-642: one butterfly on st = [real, imag]
butterfly(st, size, i, j) ==
    LET halfSize == size \div 2
        idx1 == i + j
        idx2 == i + j + halfSize
        tReal == Sub(Mul(ReadAt(st.real, idx2), Cos(size, j)),
                     Mul(ReadAt(st.imag, idx2), Sin(size, j)))
        tImag == Add(Mul(ReadAt(st.real, idx2), Sin(size, j)),
                     Mul(ReadAt(st.imag, idx2), Cos(size, j)))
        real2 == WriteAt(st.real, idx2, Sub(ReadAt(st.real, idx1), tReal))
        imag2 == WriteAt(st.imag, idx2, Sub(ReadAt(st.imag, idx1), tImag))
    IN  [ real |-> WriteAt(real2, idx1, Add(ReadAt(real2, idx1), tReal)),
          imag |-> WriteAt(imag2, idx1, Add(ReadAt(imag2, idx1), tImag)) ]

\* the loop over j of line 628
RECURSIVE butterflies(_, _, _, _)
butterflies(st, size, i, j) ==
    IF ~(j < size \div 2) THEN st
    ELSE butterflies(butterfly(st, size, i, j), size, i, j + 1)

\* the loop over i of line 627
RECURSIVE blocks(_, _, _, _)
blocks(st, n, size, i) ==
    IF ~(i < n) THEN st
    ELSE blocks(butterflies(st, size, i, 0), n, size, i + size)

\* the loop over size of line 623
RECURSIVE stages(_, _, _)
stages(st, n, size) ==
    IF ~(size <= n) THEN st
    ELSE stages(blocks(st, n, size, 0), n, size * 2)

\* fft on a block of fewer than 8 samples.  The function has no throw
\* statement and no operation of it throws on any length, so it always returns;
\* new Float32Array(n / 2) truncates n / 2.  The magnitudes are given by their
\* squares (the argument of Math.sqrt).
fft(data) ==
    LET n == Len(data)
        st == stages([ real |-> bitReversed(data), imag |-> [j \in 0 .. (n - 1) |-> Num(0)] ],
                     n, 2)
    IN  [ outcome   |-> "returned",
          magnitude |-> [ i \in 0 .. ((n \div 2) - 1) |->
                             Add(Mul(st.real[i], st.real[i]), Mul(st.imag[i], st.imag[i])) ] ]

-----------------------------------------------------------------------------
(* Actions *)

\* a source of the engine plays, or has its ended event or its end timer pending
ClockBound(e) == \E s \in DOMAIN e.sources : e.sources[s].st # "done"

\* the source has an event that is due at time t: the ended event of a source that
\* was stopped or has played its buffer, or the end timer; a source without a
\* buffer (the engine was built before any audio was decoded) plays silence
\* until it is stopped
SourceDue(e, src, t) ==
    \/ src.st = "stopped"
    \/ src.st = "playing" /\ e.audioBuffer # 0 /\ t - src.at >= Songs[e.audioBuffer].duration
    \/ src.st = "timer" /\ t >= src.at

\* The audio clock advances.  Events and timers are served within the 50 ms in
\* which they become due, in any order with the other events of that time; once
\* nothing is bound to the clock the model stops following it.
AdvanceClock ==
    /\ now < MaxClock
    /\ \/ \E i \in DOMAIN engines : ClockBound(engines[i])
       \/ Len(app.startTimers) > 0
    /\ \A i \in DOMAIN engines : \A s \in DOMAIN engines[i].sources :
          ~SourceDue(engines[i], engines[i].sources[s], now)
    /\ \A k \in DOMAIN app.startTimers : now < app.startTimers[k]
    /\ now' = now + 1
    /\ UNCHANGED <<engines, app, generator, analyzer>>

\* a start timer of App.startGame fires: this.gameEngine.start()
StartTimer ==
    /\ Len(app.startTimers) > 0
    /\ now >= Head(app.startTimers)
    /\ app.gameEngine # 0
    /\ engines' = [engines EXCEPT ![app.gameEngine] = start(@, now)]
    /\ app' = [app EXCEPT !.startTimers = Tail(@)]
    /\ UNCHANGED <<now, generator, analyzer>>

\* an animation frame callback runs gameLoop
GameLoop(i) ==
    /\ engines[i].rafPending > 0
    /\ engines' = [engines EXCEPT ![i] = gameLoop([@ EXCEPT !.rafPending = @ - 1], now)]
    /\ UNCHANGED <<app, now, generator, analyzer>>

\* a keydown event reaches the listener of every engine
KeyDown(key) ==
    /\ engines' = [i \in DOMAIN engines |-> keydown(engines[i], key, now)]
    /\ engines' # engines
    /\ UNCHANGED <<app, now, generator, analyzer>>

KeyUp(key) ==
    /\ engines' = [i \in DOMAIN engines |-> keyup(engines[i], key)]
    /\ engines' # engines
    /\ UNCHANGED <<app, now, generator, analyzer>>

\* a touchstart event with one touch reaches the listener of every engine
TouchStart(displayLane) ==
    /\ \E i \in DOMAIN engines : engines[i].isPlaying
    /\ engines' = [i \in DOMAIN engines |-> touchstart(engines[i], displayLane, now)]
    /\ UNCHANGED <<app, now, generator, analyzer>>

\* judgeNoteMultiLane called on a playing engine
JudgeNoteMultiLane(i, laneIndices) ==
    /\ engines[i].isPlaying
    /\ engines' = [engines EXCEPT ![i] = judgeNoteMultiLane(@, laneIndices, now)]
    /\ UNCHANGED <<app, now, generator, analyzer>>

\* the ended event of a source (played to its end, or stopped): onended sets the
\* timer of end()
AudioEnded(i, s) ==
    /\ s \in DOMAIN engines[i].sources
    /\ engines[i].sources[s].st \in {"playing", "stopped"}
    /\ SourceDue(engines[i], engines[i].sources[s], now)
    /\ engines' = [engines EXCEPT ![i].sources[s] = [st |-> "timer", at |-> now + EndDelay]]
    /\ UNCHANGED <<app, now, generator, analyzer>>

\* the timer set by onended fires: end(), and onGameEnd shows the result
EndTimer(i, s) ==
    /\ s \in DOMAIN engines[i].sources
    /\ engines[i].sources[s].st = "timer"
    /\ SourceDue(engines[i], engines[i].sources[s], now)
    /\ engines' = [engines EXCEPT ![i] = end([@ EXCEPT !.sources[s] = [st |-> "done", at |-> 0]])]
    /\ app' = showResult(app, Result(engines[i]))
    /\ UNCHANGED <<now, generator, analyzer>>

\* the back button
BackToTitle ==
    /\ engines' = backToTitle(engines, app).engines
    /\ app' = backToTitle(engines, app).app
    /\ UNCHANGED <<now, generator, analyzer>>

\* asynchronous calls of App that have not run to their end, and engines built
CallsMade == Len(app.tasks) + Len(engines)

RemoveAt(seq, k) == [j \in 1 .. (Len(seq) - 1) |-> IF j < k THEN seq[j] ELSE seq[j + 1]]

\* click on the play button of a saved song: playSavedSong up to await getSong
PlaySavedSongClick(song) ==
    /\ CallsMade < MaxEngines
    /\ app' = [app EXCEPT !.tasks = Append(@, [kind |-> "playSavedSong", pc |-> "getSong",
                                               song |-> song])]
    /\ UNCHANGED <<engines, now, generator, analyzer>>

\* getSong resolves: the fields of App are set and loadAudioFromBuffer starts
\* decoding the song's audio
PlaySavedSongLoaded(k) ==
    /\ k \in DOMAIN app.tasks
    /\ app.tasks[k].kind = "playSavedSong" /\ app.tasks[k].pc = "getSong"
    /\ app' = [app EXCEPT !.chart = app.tasks[k].song,
                          !.audioData = app.tasks[k].song,
                          !.tasks[k].pc = "decode"]
    /\ UNCHANGED <<engines, now, generator, analyzer>>

\* click on retry: retryGame up to await loadAudioFromBuffer(this.audioData.slice(0));
\* without audioData the call throws
RetryGameClick ==
    /\ CallsMade < MaxEngines
    /\ app.audioData # 0
    /\ app' = [app EXCEPT !.tasks = Append(@, [kind |-> "retryGame", pc |-> "decode",
                                               song |-> app.audioData])]
    /\ UNCHANGED <<engines, now, generator, analyzer>>

\* decodeAudioData resolves: loadAudioFromBuffer stores the buffer, and the
\* caller (playSavedSong or retryGame) goes on to startGame
AudioDecoded(k, latency) ==
    /\ k \in DOMAIN app.tasks
    /\ app.tasks[k].kind \in {"playSavedSong", "retryGame"}
    /\ app.tasks[k].pc = "decode"
    /\ LET loaded == [app EXCEPT !.audioBuffer = app.tasks[k].song,
                                 !.tasks = RemoveAt(@, k)]
           started == startGame(engines, loaded, latency, now)
       IN  engines' = started.engines /\ app' = started.app
    /\ UNCHANGED <<now, generator, analyzer>>

\* a file is chosen in the file input: onAudioSelect up to await file.arrayBuffer()
AudioSelect(file) ==
    /\ CallsMade < MaxEngines
    /\ app' = [app EXCEPT !.audioFile = file,
                          !.startBtnDisabled = TRUE,
                          !.tasks = Append(@, [kind |-> "onAudioSelect", pc |-> "arrayBuffer",
                                               song |-> file])]
    /\ UNCHANGED <<engines, now, generator, analyzer>>

\* file.arrayBuffer() resolves: audioData is set and loadAudioFromBuffer starts
\* decoding
FileRead(k) ==
    /\ k \in DOMAIN app.tasks
    /\ app.tasks[k].kind = "onAudioSelect" /\ app.tasks[k].pc = "arrayBuffer"
    /\ app' = [app EXCEPT !.audioData = app.tasks[k].song,
                          !.tasks[k].pc = "decode"]
    /\ UNCHANGED <<engines, now, generator, analyzer>>

\* decodeAudioData resolves in onAudioSelect: loadAudioFromBuffer stores the
\* buffer and detectOnsetsByBand starts on it
AnalysisDecoded(k) ==
    /\ k \in DOMAIN app.tasks
    /\ app.tasks[k].kind = "onAudioSelect" /\ app.tasks[k].pc = "decode"
    /\ app' = [app EXCEPT !.audioBuffer = app.tasks[k].song,
                          !.tasks[k].pc = "detect"]
    /\ UNCHANGED <<engines, now, generator, analyzer>>

\* detectOnsetsByBand resolves: the chart generated from the onsets of the buffer
\* it analysed is stored and the start button is enabled
OnsetsDetected(k) ==
    /\ k \in DOMAIN app.tasks
    /\ app.tasks[k].kind = "onAudioSelect" /\ app.tasks[k].pc = "detect"
    /\ app' = [app EXCEPT !.chart = app.tasks[k].song,
                          !.startBtnDisabled = FALSE,
                          !.tasks = RemoveAt(@, k)]
    /\ UNCHANGED <<engines, now, generator, analyzer>>

\* click on the start button: startNewSong up to await saveSong; nothing without
\* a chart or without audio data, and without a file this.audioFile.name throws
StartNewSongClick ==
    /\ CallsMade < MaxEngines
    /\ ~app.startBtnDisabled
    /\ app.chart # 0 /\ app.audioData # 0
    /\ app.audioFile # 0
    /\ app' = [app EXCEPT !.tasks = Append(@, [kind |-> "startNewSong", pc |-> "saveSong",
                                               song |-> app.chart])]
    /\ UNCHANGED <<engines, now, generator, analyzer>>

\* saveSong and loadSongList have resolved (or saveSong has failed, which is
\* caught): startNewSong goes on to startGame
SongSaved(k, latency) ==
    /\ k \in DOMAIN app.tasks
    /\ app.tasks[k].kind = "startNewSong"
    /\ LET started == startGame(engines, [app EXCEPT !.tasks = RemoveAt(@, k)], latency, now)
       IN  engines' = started.engines /\ app' = started.app
    /\ UNCHANGED <<now, generator, analyzer>>

-----------------------------------------------------------------------------
(* The engine of the latest App.startGame call.  The timer callback of     *)
(* startGame starts whatever this.gameEngine is when it fires, so the      *)
(* timers of earlier startGame calls start this engine too: Init is the    *)
(* state right after the first start timer has fired, with the timers of   *)
(* PendingStarts still to come.                                            *)

Init ==
    /\ now = 0
    /\ \E session \in Sessions, latency \in Latencies :
        /\ engines = << start(NewEngine(session.song, session.song, latency), 0) >>
        /\ app = [ chart       |-> session.song,
                   audioFile   |-> 0,
                   audioData   |-> session.song,
                   audioBuffer |-> session.song,
                   gameEngine  |-> 1,
                   screen      |-> "game",
                   resultStats |-> 0,
                   startBtnDisabled |-> FALSE,
                   tasks       |-> <<>>,
                   startTimers |-> session.timers ]
    /\ generator = NoCall
    /\ analyzer = NoCall

Next ==
    \/ AdvanceClock
    \/ StartTimer
    \/ \E i \in DOMAIN engines : GameLoop(i)
    \/ \E key \in Keys : KeyDown(key)
    \/ \E key \in Keys : KeyUp(key)
    \/ \E lane \in Lanes : TouchStart(lane)
    \/ \E i \in DOMAIN engines, laneIndices \in SUBSET Lanes : JudgeNoteMultiLane(i, laneIndices)
    \/ \E i \in DOMAIN engines : \E s \in DOMAIN engines[i].sources : AudioEnded(i, s)
    \/ \E i \in DOMAIN engines : \E s \in DOMAIN engines[i].sources : EndTimer(i, s)
    \/ BackToTitle

Spec == Init /\ [][Next]_vars

\* The same, with what the browser guarantees: the audio clock advances, an
\* animation frame that was requested is run, a timer that is due fires and an
\* ended event that is due is delivered.  Nothing is assumed of the player.
LiveSpec ==
    /\ Init /\ [][Next]_vars
    /\ WF_vars(AdvanceClock)
    /\ WF_vars(StartTimer)
    /\ WF_vars(GameLoop(1))
    /\ WF_vars(\E s \in 1 .. MaxEngines : AudioEnded(1, s))
    /\ WF_vars(\E s \in 1 .. MaxEngines : EndTimer(1, s))

-----------------------------------------------------------------------------
(* The application from its title screen, with the saved songs of SavedSongs *)
(* in the chart cache.                                                      *)

\* the fields of App after its constructor: no chart, no audio, no engine
NewApp ==
    [ chart       |-> 0,
      audioFile   |-> 0,
      audioData   |-> 0,
      audioBuffer |-> 0,
      gameEngine  |-> 0,
      screen      |-> "title",
      resultStats |-> 0,
      startBtnDisabled |-> FALSE,
      tasks       |-> <<>>,
      startTimers |-> <<>> ]

AppInit ==
    /\ now = 0
    /\ engines = <<>>
    /\ app = NewApp
    /\ generator = NoCall
    /\ analyzer = NoCall

AppNext ==
    \/ AdvanceClock
    \/ StartTimer
    \/ \E i \in DOMAIN engines : GameLoop(i)
    \/ \E key \in Keys : KeyDown(key)
    \/ \E key \in Keys : KeyUp(key)
    \/ \E lane \in Lanes : TouchStart(lane)
    \/ \E i \in DOMAIN engines : \E s \in DOMAIN engines[i].sources : AudioEnded(i, s)
    \/ \E i \in DOMAIN engines : \E s \in DOMAIN engines[i].sources : EndTimer(i, s)
    \/ BackToTitle
    \/ \E song \in SavedSongs : PlaySavedSongClick(song)
    \/ \E k \in DOMAIN app.tasks : PlaySavedSongLoaded(k)
    \/ RetryGameClick
    \/ \E k \in DOMAIN app.tasks, latency \in Latencies : AudioDecoded(k, latency)

AppSpec == AppInit /\ [][AppNext]_vars

-----------------------------------------------------------------------------
(* The application from its title screen with an empty chart cache: the     *)
(* songs come from the file input and are started with the start button.    *)

UploadNext ==
    \/ AdvanceClock
    \/ StartTimer
    \/ \E i \in DOMAIN engines : GameLoop(i)
    \/ \E key \in Keys : KeyDown(key)
    \/ \E key \in Keys : KeyUp(key)
    \/ \E lane \in Lanes : TouchStart(lane)
    \/ \E i \in DOMAIN engines : \E s \in DOMAIN engines[i].sources : AudioEnded(i, s)
    \/ \E i \in DOMAIN engines : \E s \in DOMAIN engines[i].sources : EndTimer(i, s)
    \/ BackToTitle
    \/ \E file \in AudioFiles : AudioSelect(file)
    \/ \E k \in DOMAIN app.tasks : FileRead(k)
    \/ \E k \in DOMAIN app.tasks : AnalysisDecoded(k)
    \/ \E k \in DOMAIN app.tasks : OnsetsDetected(k)
    \/ StartNewSongClick
    \/ \E k \in DOMAIN app.tasks, latency \in Latencies : SongSaved(k, latency)

UploadSpec == AppInit /\ [][UploadNext]_vars

-----------------------------------------------------------------------------
(* The application from its title screen with the saved songs in the chart  *)
(* cache and the file input: file selections, saved-song plays, retries and *)
(* the start button in any order, while the asynchronous steps of earlier   *)
(* calls are pending.  The player presses no key.                           *)

MixNext ==
    \/ AdvanceClock
    \/ StartTimer
    \/ \E i \in DOMAIN engines : GameLoop(i)
    \/ \E i \in DOMAIN engines : \E s \in DOMAIN engines[i].sources : AudioEnded(i, s)
    \/ \E i \in DOMAIN engines : \E s \in DOMAIN engines[i].sources : EndTimer(i, s)
    \/ BackToTitle
    \/ \E song \in SavedSongs : PlaySavedSongClick(song)
    \/ \E k \in DOMAIN app.tasks : PlaySavedSongLoaded(k)
    \/ RetryGameClick
    \/ \E k \in DOMAIN app.tasks, latency \in Latencies : AudioDecoded(k, latency)
    \/ \E file \in AudioFiles : AudioSelect(file)
    \/ \E k \in DOMAIN app.tasks : FileRead(k)
    \/ \E k \in DOMAIN app.tasks : AnalysisDecoded(k)
    \/ \E k \in DOMAIN app.tasks : OnsetsDetected(k)
    \/ StartNewSongClick
    \/ \E k \in DOMAIN app.tasks, latency \in Latencies : SongSaved(k, latency)

MixSpec == AppInit /\ [][MixNext]_vars

-----------------------------------------------------------------------------
(* ChartGenerator on its own: one call of generateFromBands or cleanupNotes *)
(* on arguments drawn from the sets below, then cleanupNotes and            *)
(* adjustDifficulty on what was returned.  The arguments are not restricted *)
(* to what AudioAnalyzer produces: the methods are public.                  *)

SeqsUpTo(S, n) == UNION { [1 .. k -> S] : k \in 0 .. n }

\* onset times: 100 and 104 round to the same hundredth, 300 is exactly 0.2 s
\* after 100
OnsetTimes == {100, 104, 300}

\* the onsets of the bands other than bass
OtherOnsets == {<<>>, <<60>>}

\* bass onsets at least 0.12 s apart: from time 0 with gaps of exactly 0.12 s,
\* and with gaps just below, at and above 0.2 s
SpacedOnsets == { <<0, 120, 240>>, <<104, 300, 500, 620>> }

BandOnsetSets ==
    { [bass |-> b, midLow |-> o, midHigh |-> o, high |-> o] :
        b \in SeqsUpTo(OnsetTimes, MaxOnsets) \cup SpacedOnsets, o \in OtherOnsets }

\* note times: 0 and 4 round to the same hundredth, 104 is exactly 0.1 s after 4
NoteTimes == {0, 4, 50, 104}

NoteLists ==
    SeqsUpTo({ Note(t, l) : t \in NoteTimes, l \in 0 .. (GeneratorLanes - 1) }, MaxNotes)

\* difficulty levels, in hundredths
Levels == {0, 50, 100, 150}

\* generateFromBands, for every outcome of its Math.random() calls
GenerateFromBands ==
    /\ generator.pc = "called" /\ generator.call = "generateFromBands"
    /\ \E randoms \in [1 .. Len(NoteAnchors(generator.bandOnsets)) -> RandomDraws] :
       generator' =
          [ pc         |-> "returned",
            call       |-> "generateFromBands",
            bandOnsets |-> generator.bandOnsets,
            randoms    |-> randoms,
            placed     |-> placeNotes(NoteAnchors(generator.bandOnsets), randoms, 1, <<>>),
            result     |-> generateFromBands(generator.bandOnsets, randoms),
            passes     |-> 1 ]
    /\ UNCHANGED <<engines, app, now, analyzer>>

\* cleanupNotes on the list of the call, or on the list the last call returned
CleanupNotes ==
    /\ \/ generator.pc = "called" /\ generator.call = "cleanupNotes"
       \/ generator.pc = "returned" /\ generator.passes < MaxPasses
    /\ LET notes == IF generator.pc = "called" THEN generator.notes ELSE generator.result
       IN  generator' =
              [ pc     |-> "returned",
                call   |-> "cleanupNotes",
                notes  |-> notes,
                result |-> cleanupNotes(notes),
                passes |-> IF generator.pc = "called" THEN 1 ELSE generator.passes + 1 ]
    /\ UNCHANGED <<engines, app, now, analyzer>>

\* adjustDifficulty on a chart that generateFromBands or cleanupNotes returned
AdjustDifficulty(level, randoms) ==
    /\ generator.pc = "returned"
    /\ generator.call \in {"generateFromBands", "cleanupNotes"}
    /\ Len(generator.result) <= MaxNotes
    /\ randoms \in IF level >= FullLevel THEN {<<>>}
                   ELSE [1 .. Len(generator.result) -> RandomDraws]
    /\ generator' =
          [ pc      |-> "returned",
            call    |-> "adjustDifficulty",
            notes   |-> generator.result,
            level   |-> level,
            randoms |-> randoms,
            result  |-> adjustDifficulty(generator.result, level, randoms),
            passes  |-> 0 ]
    /\ UNCHANGED <<engines, app, now, analyzer>>

ChartInit ==
    /\ now = 0
    /\ engines = <<>>
    /\ app = NewApp
    /\ analyzer = NoCall
    /\ generator \in
          { [pc |-> "called", call |-> "generateFromBands", bandOnsets |-> b] :
               b \in BandOnsetSets }
          \cup { [pc |-> "called", call |-> "cleanupNotes", notes |-> n] : n \in NoteLists }

ChartNext ==
    \/ GenerateFromBands
    \/ CleanupNotes
    \/ \E level \in Levels, randoms \in SeqsUpTo(RandomDraws, MaxNotes) :
          AdjustDifficulty(level, randoms)

ChartSpec == ChartInit /\ [][ChartNext]_vars

-----------------------------------------------------------------------------
(* AudioAnalyzer.detectOnsetsByBand on its own, frame by frame.  The audio  *)
(* is silence and clicks: in every frame the four band sums are all 0 or    *)
(* all 1.  Audio of more than MaxFrames frames is silence.                  *)

\* the band sums of one frame
Spectra == { [b \in Bands |-> e] : e \in {0, 1} }

\* channelData.length of the audio: MaxFrames frames are analysed
ChannelLength == fftSize + MaxFrames * hopSize

\* channelData.length of the audio files: half a window, exactly one window, one
\* sample more than a window, a window and a hop, MaxFrames frames, and one
\* sample more than 2 * chunkSize frames
ChannelLengths ==
    { fftSize \div 2, fftSize, fftSize + 1, fftSize + hopSize, ChannelLength,
      fftSize + 2 * chunkSize * hopSize + 1 }

\* detectOnsetsByBand up to its loop; without a buffer it returns empty bands
DetectOnsetsByBand ==
    /\ analyzer.pc = "called"
    /\ analyzer' =
          IF analyzer.audioBuffer = 0
          THEN [ pc |-> "returned", length |-> 0, fluxData |-> [b \in Bands |-> <<>>],
                 progress |-> <<>>,
                 result |-> [b \in Bands |-> <<>>] ]
          ELSE [ pc |-> "loop", length |-> analyzer.audioBuffer, i |-> 0, iteration |-> 0,
                 prevSpectrum |-> [b \in Bands |-> 0],
                 fluxData |-> [b \in Bands |-> <<>>],
                 progress |-> <<>> ]
    /\ UNCHANGED <<engines, app, now, generator>>

\* one iteration of the loop on a frame with the band sums of spectrum; every
\* chunkSize iterations the progress is reported
AnalyseFrame(spectrum) ==
    /\ analyzer.pc = "loop"
    /\ analyzer.i < analyzer.length - fftSize
    /\ analyzer.length > ChannelLength => \A b \in Bands : spectrum[b] = 0
    /\ LET time == (analyzer.i * 1000) \div SampleRate
       IN  analyzer' =
              [analyzer EXCEPT
                 !.fluxData = [b \in Bands |->
                                 Append(@[b], [time |-> time,
                                               flux |-> Max(0, spectrum[b]
                                                               - analyzer.prevSpectrum[b])])],
                 !.prevSpectrum = spectrum,
                 !.progress = IF analyzer.iteration % chunkSize = 0
                              THEN Append(@, Quotient(analyzer.iteration,
                                                      TotalIterations(analyzer.length)))
                              ELSE @,
                 !.i = @ + hopSize,
                 !.iteration = @ + 1]
    /\ UNCHANGED <<engines, app, now, generator>>

\* the loop is over: progress 1 is reported, the onsets of every band are
\* extracted and returned
ExtractOnsets ==
    /\ analyzer.pc = "loop"
    /\ ~(analyzer.i < analyzer.length - fftSize)
    /\ analyzer' =
          [ pc |-> "returned", length |-> analyzer.length, fluxData |-> analyzer.fluxData,
            progress |-> Append(analyzer.progress, Quotient(1, 1)),
            result |-> [b \in Bands |->
                           extractOnsetsFromFlux(analyzer.fluxData[b], MinInterval[b])] ]
    /\ UNCHANGED <<engines, app, now, generator>>

OnsetInit ==
    /\ now = 0
    /\ engines = <<>>
    /\ app = NewApp
    /\ generator = NoCall
    /\ analyzer \in { [pc |-> "called", audioBuffer |-> length] : length \in {0} \cup ChannelLengths }

OnsetNext ==
    \/ DetectOnsetsByBand
    \/ \E spectrum \in Spectra : AnalyseFrame(spectrum)
    \/ ExtractOnsets

OnsetSpec == OnsetInit /\ [][OnsetNext]_vars

-----------------------------------------------------------------------------
(* The functions of AudioAnalyzer that detectOnsetsByBand calls, each on its *)
(* own on arguments drawn from the sets below: the methods are public.      *)

\* the sample blocks given to fft: every block of up to MaxBlock samples 0 or 1
SampleBlocks == SeqsUpTo({0, 1}, MaxBlock)

\* fft on the block of the call
Fft ==
    /\ analyzer.pc = "called" /\ analyzer.call = "fft"
    /\ analyzer' = [ pc |-> "returned", call |-> "fft", data |-> analyzer.data,
                     result |-> fft(analyzer.data) ]
    /\ UNCHANGED <<engines, app, now, generator>>

\* the flux values of the lists given to extractOnsetsFromFlux
FluxValues == {0, 1, 2}

\* the length of the lead-in of a flux list: with two more values it fills the
\* window of the first index examined
LeadIn == windowSize - 2

\* the flux lists: up to MaxTail values, alone (fewer values than the window)
\* or after a lead-in of equal values
FluxLists ==
    { lead \o tail : lead \in {<<>>} \cup { [k \in 1 .. LeadIn |-> v] : v \in FluxValues },
                     tail \in SeqsUpTo(FluxValues, MaxTail) }

\* the fluxData of a flux list: frame k - 1 is at (k - 1) * hopSize samples
FluxDataOf(values) ==
    [ k \in DOMAIN values |->
        [time |-> ((k - 1) * hopSize * 1000) \div SampleRate, flux |-> values[k]] ]

\* extractOnsetsFromFlux on the list of the call; peaks is the local array
\* before filterCloseOnsets
ExtractOnsetsFromFlux ==
    /\ analyzer.pc = "called" /\ analyzer.call = "extractOnsetsFromFlux"
    /\ analyzer' =
          [ pc          |-> "returned",
            call        |-> "extractOnsetsFromFlux",
            fluxData    |-> analyzer.fluxData,
            minInterval |-> analyzer.minInterval,
            peaks       |-> IF Len(analyzer.fluxData) = 0 THEN <<>>
                            ELSE peaksFrom(analyzer.fluxData, windowSize, <<>>),
            result      |-> extractOnsetsFromFlux(analyzer.fluxData, analyzer.minInterval) ]
    /\ UNCHANGED <<engines, app, now, generator>>

AnalyzerInit ==
    /\ now = 0
    /\ engines = <<>>
    /\ app = NewApp
    /\ generator = NoCall
    /\ analyzer \in
          { [pc |-> "called", call |-> "fft", data |-> d] : d \in SampleBlocks }
          \cup { [pc |-> "called", call |-> "extractOnsetsFromFlux",
                  fluxData |-> FluxDataOf(values), minInterval |-> MinInterval[b]] :
                    values \in FluxLists, b \in Bands }

AnalyzerNext ==
    \/ Fft
    \/ ExtractOnsetsFromFlux

AnalyzerSpec == AnalyzerInit /\ [][AnalyzerNext]_vars

-----------------------------------------------------------------------------
(* Vocabulary of the properties *)

Pending(note) == ~note.hit /\ ~note.missed

\* the step calls start() on engine i
StartStep(i) == Len(engines'[i].sources) > Len(engines[i].sources)

\* the notes of engine i that the step marks hit, and those it marks missed
NewlyHit(i) ==
    { k \in DOMAIN engines[i].notes : ~engines[i].notes[k].hit /\ engines'[i].notes[k].hit }

NewlyMissed(i) ==
    { k \in DOMAIN engines[i].notes :
        ~engines[i].notes[k].missed /\ engines'[i].notes[k].missed }

\* the clock value engine i reads during the step
ClockOf(i) == now - engines[i].startTime - engines[i].audioLatency - ManualOffset

\* distance of note k of engine i from the clock value of the step
Dist(i, k) == Abs(engines[i].notes[k].time - ClockOf(i))

\* the notes a press on the lanes can select: pending, active, in an eligible lane
Candidates(i, lanes) ==
    { k \in DOMAIN engines[i].notes :
        /\ Pending(engines[i].notes[k])
        /\ \E a \in DOMAIN engines[i].activeNotes : engines[i].activeNotes[a] = k
        /\ engines[i].notes[k].lane \in lanes }

\* the step is a lane press on the lanes, handled by the playing engine i
PressOn(i, lanes) ==
    /\ engines[i].isPlaying
    /\ now' = now /\ app' = app
    /\ \/ JudgeNoteMultiLane(i, lanes)
       \/ \E lane \in Lanes : lanes = {lane} /\ (TouchStart(lane) \/ KeyDown(lane))

\* the step is a tick of the playing engine i
TickOf(i) == engines[i].isPlaying /\ GameLoop(i)

\* the step leaves the judgment state of engine i as it is
SameJudgmentState(i) ==
    /\ engines'[i].notes = engines[i].notes
    /\ engines'[i].score = engines[i].score
    /\ engines'[i].combo = engines[i].combo
    /\ engines'[i].maxCombo = engines[i].maxCombo
    /\ engines'[i].judgeCount = engines[i].judgeCount

-----------------------------------------------------------------------------
\* C1: within a session (no start() in the step) a note that is hit stays hit and
\* never becomes missed, a note that is missed stays missed and never becomes
\* hit, and no note is ever both hit and missed.
C1_ResolvedOnce ==
    [][\A i \in DOMAIN engines : \A k \in DOMAIN engines[i].notes :
          /\ ~(engines'[i].notes[k].hit /\ engines'[i].notes[k].missed)
          /\ ~StartStep(i) =>
                /\ engines[i].notes[k].hit =>
                      engines'[i].notes[k].hit /\ ~engines'[i].notes[k].missed
                /\ engines[i].notes[k].missed =>
                      engines'[i].notes[k].missed /\ ~engines'[i].notes[k].hit]_vars

\* C1 witness: a playing session in which one note was hit and a later one missed
C1_Witness ==
    \E i \in DOMAIN engines :
        /\ engines[i].isPlaying
        /\ \E k, m \in DOMAIN engines[i].notes :
              engines[i].notes[k].hit /\ engines[i].notes[m].missed

\* the judgment category of a distance, by the inclusive windows of the claim
CategoryOf(d) ==
    IF d <= 1 THEN "perfect" ELSE IF d <= 2 THEN "great" ELSE IF d <= 3 THEN "good" ELSE "none"

\* the smallest distance among a non-empty set of notes of engine i
MinDist(i, ks) == CHOOSE d \in { Dist(i, k) : k \in ks } : \A k \in ks : d <= Dist(i, k)

\* C2: a press whose selected note is at distance d marks one note at that
\* distance hit and counts it as perfect for d <= 0.05, great for d <= 0.10, good
\* for d <= 0.15 (bounds inclusive); for d > 0.15 the note stays pending and
\* score, combo, maxCombo and the counters are unchanged.
C2_Classification ==
    [][\A i \in DOMAIN engines : \A lanes \in SUBSET Lanes :
          (PressOn(i, lanes) /\ Candidates(i, lanes) # {}) =>
             LET d == MinDist(i, Candidates(i, lanes))
                 category == CategoryOf(d)
             IN  IF category = "none"
                 THEN SameJudgmentState(i)
                 ELSE /\ \E k \in Candidates(i, lanes) :
                           NewlyHit(i) = {k} /\ Dist(i, k) = d
                      /\ NewlyMissed(i) = {}
                      /\ engines'[i].judgeCount =
                            [engines[i].judgeCount EXCEPT ![category] = @ + 1]]_vars

\* C2 witness: one session has judged a perfect, a great and a good and still
\* has no miss
C2_Witness ==
    \E i \in DOMAIN engines :
        /\ engines[i].judgeCount.perfect = 1
        /\ engines[i].judgeCount.great = 1
        /\ engines[i].judgeCount.good = 1

\* C3: a tick at clock value c marks missed exactly the pending notes with
\* time - c < -0.15 (a note at exactly -0.15 is kept), adds their number to the
\* miss counter, and leaves combo 0 when it missed at least one.
C3_TickMisses ==
    [][\A i \in DOMAIN engines :
          TickOf(i) =>
             LET expired == { k \in DOMAIN engines[i].notes :
                                /\ Pending(engines[i].notes[k])
                                /\ engines[i].notes[k].time - ClockOf(i) < -3 }
             IN  /\ NewlyMissed(i) = expired
                 /\ \A k \in DOMAIN engines[i].notes :
                       engines[i].notes[k].time - ClockOf(i) >= -3 =>
                          engines'[i].notes[k].missed = engines[i].notes[k].missed
                 /\ engines'[i].judgeCount.miss =
                       engines[i].judgeCount.miss + Cardinality(expired)
                 /\ expired # {} => engines'[i].combo = 0]_vars

\* C3 witness: one tick has missed the two notes of time 4 together, after the
\* first note was hit
C3_Witness ==
    \E i \in DOMAIN engines :
        /\ engines[i].isPlaying
        /\ engines[i].judgeCount.miss = 2
        /\ engines[i].combo = 0
        /\ engines[i].maxCombo = 1

\* C4: a step that marks a note hit adds exactly 1 to combo and sets maxCombo to
\* the larger of maxCombo and the new combo; a step that marks a note missed
\* leaves combo 0; no other step of a session changes combo.
C4_Combo ==
    [][\A i \in DOMAIN engines :
          ~StartStep(i) =>
             /\ NewlyHit(i) # {} =>
                   /\ engines'[i].combo = engines[i].combo + 1
                   /\ engines'[i].maxCombo = Max(engines[i].maxCombo, engines[i].combo + 1)
             /\ NewlyMissed(i) # {} => engines'[i].combo = 0
             /\ (NewlyHit(i) = {} /\ NewlyMissed(i) = {}) =>
                   engines'[i].combo = engines[i].combo]_vars

\* C4 witness: two hits in a row, then a miss
C4_Witness ==
    \E i \in DOMAIN engines :
        /\ engines[i].maxCombo = 2
        /\ engines[i].combo = 0
        /\ engines[i].judgeCount.miss = 1

\* the fixed award of a category
AwardOf(category) ==
    IF category = "perfect" THEN 1000 ELSE IF category = "great" THEN 500 ELSE 100

\* C5: a step that marks note k hit adds award + 10 * (combo after the step) to
\* the score, the award being 1000, 500 or 100 by the note's distance; and a
\* session with three perfects and nothing else has combo 3 and score 3060.
C5_Score ==
    [][\A i \in DOMAIN engines :
          /\ ~StartStep(i) =>
                \A k \in NewlyHit(i) :
                   engines'[i].score =
                      engines[i].score + AwardOf(CategoryOf(Dist(i, k)))
                                       + 10 * engines'[i].combo
          /\ engines'[i].judgeCount = [perfect |-> 3, great |-> 0, good |-> 0, miss |-> 0]
                => engines'[i].combo = 3 /\ engines'[i].score = 3060]_vars

\* C5 witness: three perfects in a row
C5_Witness ==
    \E i \in DOMAIN engines :
        /\ engines[i].judgeCount = [perfect |-> 3, great |-> 0, good |-> 0, miss |-> 0]
        /\ engines[i].score = 3060

\* C6: a step that marks a note missed leaves maxCombo and score unchanged.
C6_MissKeepsMaxCombo ==
    [][\A i \in DOMAIN engines :
          NewlyMissed(i) # {} =>
             /\ engines'[i].maxCombo = engines[i].maxCombo
             /\ engines'[i].score = engines[i].score]_vars

\* C6 witness: a miss after a combo of 2
C6_Witness ==
    \E i \in DOMAIN engines :
        /\ engines[i].judgeCount.miss >= 1
        /\ engines[i].combo = 0
        /\ engines[i].maxCombo = 2
        /\ engines[i].score > 0

\* C7: a press on a lane set marks hit only a note that is pending, active and in
\* an eligible lane and that is at the minimum distance among such notes; with
\* no such note the press changes no note flag, score, combo, maxCombo or
\* counter.
C7_Selection ==
    [][\A i \in DOMAIN engines : \A lanes \in SUBSET Lanes :
          PressOn(i, lanes) =>
             /\ Candidates(i, lanes) = {} => SameJudgmentState(i)
             /\ \A k \in NewlyHit(i) :
                   /\ k \in Candidates(i, lanes)
                   /\ \A m \in Candidates(i, lanes) : Dist(i, k) <= Dist(i, m)]_vars

\* C7 witness: of two pending notes of lane 0 the later one was the closer and
\* was hit, the earlier one is still pending
C7_Witness ==
    \E i \in DOMAIN engines :
        /\ engines[i].isPlaying
        /\ Len(engines[i].notes) >= 2
        /\ engines[i].notes[1].lane = engines[i].notes[2].lane
        /\ Pending(engines[i].notes[1])
        /\ engines[i].notes[2].hit

\* C10: right after start() the score, combo, maxCombo and the four counters
\* are 0, every note is pending and the active set holds only pending notes.
C10_StartResets ==
    [][\A i \in DOMAIN engines :
          StartStep(i) =>
             /\ engines'[i].score = 0
             /\ engines'[i].combo = 0
             /\ engines'[i].maxCombo = 0
             /\ engines'[i].judgeCount = [perfect |-> 0, great |-> 0, good |-> 0, miss |-> 0]
             /\ \A k \in DOMAIN engines'[i].notes : Pending(engines'[i].notes[k])
             /\ \A a \in DOMAIN engines'[i].activeNotes :
                   Pending(engines'[i].notes[engines'[i].activeNotes[a]])]_vars

\* C10 witness: the engine was started again while its first session was playing
\* (the end timer of the first source is pending, a key pressed then is still
\* down) and is in the state start() leaves
C10_Witness ==
    \E i \in DOMAIN engines :
        /\ Len(engines[i].sources) = 2
        /\ engines[i].sources[1].st = "timer"
        /\ engines[i].keyStates[0]
        /\ engines[i].startTime = now
        /\ engines[i].score = 0
        /\ \A k \in DOMAIN engines[i].notes : Pending(engines[i].notes[k])

\* C8: once stop() has been called on an engine, no tick and no lane press
\* changes its note flags, score, combo, maxCombo or counters.
C8_StoppedStaysStopped ==
    [][\A i \in DOMAIN engines :
          (/\ engines[i].stopped
           /\ TickOf(i) \/ \E lanes \in SUBSET Lanes : PressOn(i, lanes))
             => SameJudgmentState(i)]_vars

\* C9: at most one engine has isPlaying = true.
C9_SinglePlayingEngine ==
    Cardinality({ i \in DOMAIN engines : engines[i].isPlaying }) <= 1

\* the source of the session engine i is in: the one its last start() created
SessionSource(i) == engines[i].sources[Len(engines[i].sources)]

\* C11: on an engine that stop() was never called on, the result summary of a
\* session is emitted at most once, and only when the session's own playback has
\* ended and the 500 ms after that have passed; until then the engine still
\* plays (ticks and presses are handled); the summary carries the score, maxCombo and the
\* four counters of the engine at that moment and the number of notes.
C11_ResultOnce ==
    [][\A i \in DOMAIN engines :
          /\ \A s \in DOMAIN engines[i].sources :
                (EndTimer(i, s) /\ ~engines[i].stopped) =>
                   /\ engines[i].emitted = 0
                   /\ SessionSource(i).st = "timer"
                   /\ now >= SessionSource(i).at
                   /\ app'.resultStats =
                         [ score      |-> engines[i].score,
                           maxCombo   |-> engines[i].maxCombo,
                           perfect    |-> engines[i].judgeCount.perfect,
                           great      |-> engines[i].judgeCount.great,
                           good       |-> engines[i].judgeCount.good,
                           miss       |-> engines[i].judgeCount.miss,
                           totalNotes |-> Len(engines[i].notes) ]
          /\ (/\ Len(engines[i].sources) > 0
              /\ ~engines[i].stopped
              /\ engines[i].emitted = 0) => engines[i].isPlaying]_vars

\* C12: a note that a step marks hit is a note of the active set of the last
\* tick, and it is classified by its distance from the clock read in that step
\* (rawClock - startTime - latency - 0.05): the distance is within 0.15 and the
\* counter of its category is the one incremented.
C12_ClockAtPress ==
    [][\A i \in DOMAIN engines :
          ~StartStep(i) =>
             \A k \in NewlyHit(i) :
                LET diff == Abs(engines[i].notes[k].time
                                - (now - engines[i].startTime - engines[i].audioLatency - 1))
                IN  /\ \E a \in DOMAIN engines[i].activeNotes : engines[i].activeNotes[a] = k
                    /\ diff <= 3
                    /\ engines'[i].judgeCount[CategoryOf(diff)] =
                          engines[i].judgeCount[CategoryOf(diff)] + 1]_vars

\* C12 witness: the second note of lane 0 (time 4) was judged great while the
\* first (time 2) is still pending: the press came at clock value 6, when the
\* first note was past its window and only a tick older than that had run
C12_Witness ==
    \E i \in DOMAIN engines :
        /\ engines[i].isPlaying
        /\ Len(engines[i].notes) = 3
        /\ Pending(engines[i].notes[1])
        /\ engines[i].notes[2].hit
        /\ engines[i].judgeCount = [perfect |-> 0, great |-> 1, good |-> 0, miss |-> 0]
        /\ engines[i].notes[1].time - ClockOf(i) < -3

\* C13: start() is never reached on an engine whose chart has no notes.
C13_NoStartOnEmptyChart ==
    \A i \in DOMAIN engines :
        Len(engines[i].notes) = 0 => Len(engines[i].sources) = 0

-----------------------------------------------------------------------------
(* ChartGenerator *)

\* the ChartGenerator call of that name has returned
Returned(call) == generator.pc = "returned" /\ generator.call = call

\* no two notes of the same lane are less than 0.1 s apart
Spaced(notes) ==
    \A j, k \in DOMAIN notes :
        (j < k /\ notes[j].lane = notes[k].lane) =>
            Abs(notes[k].time - notes[j].time) >= 100

\* C14: the list cleanupNotes returns has no two notes in the same lane whose
\* times differ by less than 0.1 s (the input times are all >= 0).
C14_MinSpacing ==
    Returned("cleanupNotes") => Spaced(generator.result)

SortedByTime(notes) ==
    \A j, k \in DOMAIN notes : j < k => notes[j].time <= notes[k].time

\* the time rounded to two decimals, in hundredths
Rounded(time) == (time + 5) \div 10

\* C15: the chart generateFromBands returns is sorted by time, non-decreasing,
\* and no two of its notes share the time rounded to two decimals and the lane.
C15_SortedNoDuplicates ==
    Returned("generateFromBands") =>
        /\ SortedByTime(generator.result)
        /\ \A j, k \in DOMAIN generator.result :
              (j # k /\ generator.result[j].lane = generator.result[k].lane) =>
                  Rounded(generator.result[j].time) # Rounded(generator.result[k].time)

\* C15 witness: the notes were placed out of time order, two of them in the same
\* lane and hundredth (the fifth of five notes within 0.2 s), and the chart has
\* lost a note
C15_Witness ==
    /\ Returned("generateFromBands")
    /\ ~SortedByTime(generator.placed)
    /\ \E j, k \in DOMAIN generator.placed :
          /\ j # k
          /\ generator.placed[j].lane = generator.placed[k].lane
          /\ Rounded(generator.placed[j].time) = Rounded(generator.placed[k].time)
    /\ Len(generator.result) < Len(generator.placed)
    /\ Len(generator.result) >= 3

\* C16: cleanupNotes applied to a list that cleanupNotes returned returns the
\* same notes in the same order.
C16_CleanupIdempotent ==
    (Returned("cleanupNotes") /\ generator.passes >= 2) =>
        generator.result = generator.notes

\* C16 witness: the second cleanupNotes in a row has returned a chart of three
\* notes, two of them at the same time and two of them in the same lane
C16_Witness ==
    /\ Returned("cleanupNotes")
    /\ generator.passes = 2
    /\ Len(generator.result) = 3
    /\ \E j, k \in DOMAIN generator.result :
          j # k /\ generator.result[j].time = generator.result[k].time
    /\ \E j, k \in DOMAIN generator.result :
          j # k /\ generator.result[j].lane = generator.result[k].lane

\* the lanes of the notes placed before the k-th that are less than 0.2 s old
\* at the time of the k-th
OccupiedAt(placed, k) ==
    { placed[j].lane : j \in { i \in 1 .. (k - 1) : placed[k].time - placed[i].time < 200 } }

\* C17: every note is placed in one of the lanes 0..3, and in a lane that no
\* earlier placed note n with t - n.time < 0.2 occupies unless all four lanes
\* are occupied.
C17_LaneChoice ==
    Returned("generateFromBands") =>
        \A k \in DOMAIN generator.placed :
            /\ generator.placed[k].lane \in 0 .. 3
            /\ OccupiedAt(generator.placed, k) # 0 .. 3 =>
                  generator.placed[k].lane \notin OccupiedAt(generator.placed, k)

\* C17 witness: the fifth note found all four lanes occupied, the second found
\* one occupied
C17_Witness ==
    /\ Returned("generateFromBands")
    /\ Len(generator.placed) = 5
    /\ OccupiedAt(generator.placed, 5) = 0 .. 3
    /\ Cardinality(OccupiedAt(generator.placed, 2)) = 1

\* C18: every note time of the chart is one of the bass onset times, and
\* generateFromBands on the same bass onsets and the same random values, with
\* any other midLow, midHigh and high onsets, returns the same chart.
C18_BassOnly ==
    Returned("generateFromBands") =>
        /\ \A k \in DOMAIN generator.result :
              \E j \in DOMAIN generator.bandOnsets.bass :
                  generator.result[k].time = generator.bandOnsets.bass[j]
        /\ \A midLow \in OtherOnsets, midHigh \in OtherOnsets, high \in OtherOnsets :
              LET other == [ bass    |-> generator.bandOnsets.bass,
                             midLow  |-> midLow,
                             midHigh |-> midHigh,
                             high    |-> high ]
              IN  Len(NoteAnchors(other)) = Len(generator.randoms) =>
                     generateFromBands(other, generator.randoms) = generator.result

\* C18 witness: a chart of two notes from two bass onsets, generated while the
\* other bands had onsets of their own
C18_Witness ==
    /\ Returned("generateFromBands")
    /\ Len(generator.bandOnsets.bass) = 2
    /\ Len(generator.bandOnsets.midLow) > 0
    /\ Len(generator.bandOnsets.high) > 0
    /\ Len(generator.result) = 2

\* sub is seq with some of its elements left out
RECURSIVE IsSubsequence(_, _)
IsSubsequence(sub, seq) ==
    IF sub = <<>> THEN TRUE
    ELSE IF seq = <<>> THEN FALSE
    ELSE IF Head(sub) = Head(seq) THEN IsSubsequence(Tail(sub), Tail(seq))
    ELSE IsSubsequence(sub, Tail(seq))

\* C19: adjustDifficulty returns its input unchanged for a level >= 1.0, and for
\* a level < 1.0 a subsequence of it: input notes only, each at most once, in
\* the order of the input.
C19_AdjustDifficulty ==
    Returned("adjustDifficulty") =>
        IF generator.level >= 100
        THEN generator.result = generator.notes
        ELSE /\ IsSubsequence(generator.result, generator.notes)
             /\ Len(generator.result) <= Len(generator.notes)

\* C19 witness: at level 0.5 the second of three notes was dropped and the
\* other two were kept
C19_Witness ==
    /\ Returned("adjustDifficulty")
    /\ generator.level = 50
    /\ Len(generator.notes) = 3
    /\ generator.result = <<generator.notes[1], generator.notes[3]>>

-----------------------------------------------------------------------------
(* AudioAnalyzer *)

\* adjacent onsets of the list are at least gap apart
ApartBy(onsets, gap) ==
    \A k \in 1 .. (Len(onsets) - 1) : onsets[k + 1] - onsets[k] >= gap

\* C20: in the onsets detectOnsetsByBand returns, adjacent onset times of a band
\* are at least the band's minimum interval apart (bass 0.12 s, midLow 0.10 s,
\* midHigh 0.10 s, high 0.08 s) and strictly increasing.
C20_MinInterval ==
    analyzer.pc = "returned" =>
        /\ ApartBy(analyzer.result.bass, 120)
        /\ ApartBy(analyzer.result.midLow, 100)
        /\ ApartBy(analyzer.result.midHigh, 100)
        /\ ApartBy(analyzer.result.high, 80)
        /\ \A b \in Bands : \A k \in 1 .. (Len(analyzer.result[b]) - 1) :
              analyzer.result[b][k] < analyzer.result[b][k + 1]

\* C20 witness: a peak 96 ms after the first one was kept in the high band and
\* dropped in the other three
C20_Witness ==
    /\ analyzer.pc = "returned"
    /\ Len(analyzer.result.high) = 2
    /\ analyzer.result.high[2] - analyzer.result.high[1] = 96
    /\ Len(analyzer.result.bass) = 1
    /\ Len(analyzer.result.midLow) = 1
    /\ Len(analyzer.result.midHigh) = 1

\* the k-th note object of the array passed to setChart of engine i, as it is
\* now: the engine's note where the engine holds that very object, else the
\* object as the chart generator made it
GivenNote(i, k) ==
    IF engines[i].notes[k].given
    THEN [ time |-> engines[i].notes[k].time, lane |-> engines[i].notes[k].lane,
           flagged |-> TRUE ]
    ELSE [ time |-> Songs[engines[i].chart].chart[k].time,
           lane |-> Songs[engines[i].chart].chart[k].lane,
           flagged |-> FALSE ]

RECURSIVE IsPowerOfTwo(_)
IsPowerOfTwo(n) ==
    IF n <= 0 THEN FALSE
    ELSE IF n = 1 THEN TRUE
    ELSE n % 2 = 0 /\ IsPowerOfTwo(n \div 2)

\* C23: fft on a block whose length is not a power of two does not return a
\* magnitude array: it fails with an error.
C23_FftFailsFast ==
    (analyzer.pc = "returned" /\ analyzer.call = "fft"
        /\ ~IsPowerOfTwo(Len(analyzer.data)))
      => analyzer.result.outcome = "thrown"

\* the sum of the flux values of the frames from .. to (0-based) of the call
RECURSIVE FluxSum(_, _)
FluxSum(from, to) ==
    IF from > to THEN 0 ELSE analyzer.fluxData[from + 1].flux + FluxSum(from + 1, to)

\* the rule of the claim for the 0-based index i of the call's flux list:
\* flux[i] > 1.5 * mean(flux[i-10..i-1]) + 0.001 in thousandths times 10
PeakByRule(i) ==
    /\ 10 <= i /\ i <= Len(analyzer.fluxData) - 2
    /\ 10000 * analyzer.fluxData[i + 1].flux > 1500 * FluxSum(i - 10, i - 1) + 10
    /\ analyzer.fluxData[i + 1].flux > analyzer.fluxData[i].flux
    /\ analyzer.fluxData[i + 1].flux >= analyzer.fluxData[i + 2].flux

\* C24: the peak candidates of extractOnsetsFromFlux are the times of exactly
\* the indices i with 10 <= i <= length - 2, flux[i] > 1.5 * mean of the ten
\* values before + 0.001, flux[i] > flux[i-1] and flux[i] >= flux[i+1], each
\* once and in order; so no onset is reported for the first 10 frames or the
\* last one, or for a frame whose flux equals that of the frame before.
C24_PeakRule ==
    (analyzer.pc = "returned" /\ analyzer.call = "extractOnsetsFromFlux") =>
        /\ \A i \in 0 .. (Len(analyzer.fluxData) - 1) :
              (\E p \in DOMAIN analyzer.peaks :
                    analyzer.peaks[p] = analyzer.fluxData[i + 1].time)
                 <=> PeakByRule(i)
        /\ \A p \in 1 .. (Len(analyzer.peaks) - 1) :
              analyzer.peaks[p] < analyzer.peaks[p + 1]
        /\ \A r \in DOMAIN analyzer.result :
              \E i \in 10 .. (Len(analyzer.fluxData) - 2) :
                  /\ analyzer.result[r] = analyzer.fluxData[i + 1].time
                  /\ analyzer.fluxData[i + 1].flux # analyzer.fluxData[i].flux

\* C24 witness: in a list of 14 frames the frames 10 and 12 are the peaks, and
\* frame 11 has the same flux as frame 10
C24_Witness ==
    /\ analyzer.pc = "returned" /\ analyzer.call = "extractOnsetsFromFlux"
    /\ Len(analyzer.fluxData) = 14
    /\ analyzer.peaks = <<analyzer.fluxData[11].time, analyzer.fluxData[13].time>>
    /\ analyzer.fluxData[12].flux = analyzer.fluxData[11].flux

\* C25: no result summary is emitted (onGameEnd called, result screen shown) for
\* a session that stop() was called on, also when the stopped audio source
\* reports the end of its playback.
C25_NoResultAfterStop ==
    [][\A i \in DOMAIN engines : \A s \in DOMAIN engines[i].sources :
          EndTimer(i, s) => ~engines[i].sessionStopped]_vars

\* C26: when start() runs on an engine, the chart the engine was given is the
\* chart of the audio in the engine's buffer, and of the audio stored as
\* audioData.
C26_ChartOfAudio ==
    [][\A i \in DOMAIN engines :
          (i \in DOMAIN engines' /\ StartStep(i)) =>
             /\ engines[i].chart = engines[i].audioBuffer
             /\ engines[i].chart = app.audioData]_vars

\* the notes of engine i that are hit, and those that are missed
HitNotes(i) == { k \in DOMAIN engines[i].notes : engines[i].notes[k].hit }

MissedNotes(i) == { k \in DOMAIN engines[i].notes : engines[i].notes[k].missed }

\* C27: in every state perfect + great + good is the number of notes that are
\* hit, miss is the number of notes that are missed, and the four counters
\* together do not exceed the number of notes.
C27_CountersMatchNotes ==
    \A i \in DOMAIN engines :
        LET count == engines[i].judgeCount
        IN  /\ count.perfect + count.great + count.good = Cardinality(HitNotes(i))
            /\ count.miss = Cardinality(MissedNotes(i))
            /\ count.perfect + count.great + count.good + count.miss
                  <= Len(engines[i].notes)

\* C27 witness: the engine was started a second time after notes had been
\* judged, and in the second session one note was missed and two were hit
C27_Witness ==
    \E i \in DOMAIN engines :
        /\ Len(engines[i].sources) = 2
        /\ Cardinality(MissedNotes(i)) = 1
        /\ Cardinality(HitNotes(i)) = 2

\* C28: in every state 0 <= combo <= maxCombo, and no step other than start()
\* decreases maxCombo or score.
C28_ComboBelowMax ==
    [][\A i \in DOMAIN engines :
          /\ 0 <= engines[i].combo /\ engines[i].combo <= engines[i].maxCombo
          /\ 0 <= engines'[i].combo /\ engines'[i].combo <= engines'[i].maxCombo
          /\ ~StartStep(i) =>
                /\ engines'[i].maxCombo >= engines[i].maxCombo
                /\ engines'[i].score >= engines[i].score]_vars

\* C28 witness: a hit, then a miss, then a hit: the combo is 1 again and
\* maxCombo is still 1
C28_Witness ==
    \E i \in DOMAIN engines :
        /\ engines[i].combo = 1
        /\ engines[i].maxCombo = 1
        /\ engines[i].judgeCount.miss = 1
        /\ Cardinality(HitNotes(i)) = 2

\* note k of the engine is pending in a playing session
PendingInPlay(k) ==
    /\ k \in DOMAIN engines[1].notes
    /\ engines[1].isPlaying
    /\ Pending(engines[1].notes[k])

\* the clock of the engine is more than 0.15 s past the time of note k
PastWindow(k) == engines[1].notes[k].time - ClockOf(1) < -3

\* C29: a note that is pending in a playing session is eventually hit or
\* missed, unless the session stops playing first (or the run ends with the
\* clock not yet more than 0.15 s past the note's time); and once the clock is
\* more than 0.15 s past the note's time, a tick resolves it.
C29_EventuallyResolved ==
    \A k \in 1 .. 3 :
        /\ PendingInPlay(k) ~>
              (~PendingInPlay(k) \/ (now = MaxClock /\ ~PastWindow(k)))
        /\ (PendingInPlay(k) /\ PastWindow(k)) ~> ~PendingInPlay(k)

\* C29 witness: a note of a playing session is still pending although the
\* clock is past its window: the tick that misses it has not run yet
C29_Witness ==
    \E k \in 1 .. 3 : PendingInPlay(k) /\ PastWindow(k) /\ now < MaxClock

\* the value is a number from 0 to 1
IsFraction(value) == value.den > 0 /\ 0 <= value.num /\ value.num <= value.den

\* C21: every value detectOnsetsByBand passes to the progress callback is a
\* number in the range 0..1, the values are reported in non-decreasing order,
\* and the last value reported is 1.
C21_Progress ==
    analyzer.pc \in {"loop", "returned"} =>
        /\ \A k \in DOMAIN analyzer.progress : IsFraction(analyzer.progress[k])
        /\ \A k \in 1 .. (Len(analyzer.progress) - 1) :
              analyzer.progress[k].num * analyzer.progress[k + 1].den
                 <= analyzer.progress[k + 1].num * analyzer.progress[k].den
        /\ (analyzer.pc = "returned" /\ analyzer.length > 0) =>
              /\ Len(analyzer.progress) > 0
              /\ analyzer.progress[Len(analyzer.progress)].num
                    = analyzer.progress[Len(analyzer.progress)].den

-----------------------------------------------------------------------------
\* consecutive onsets are at least 0.12 s apart (and so strictly increasing)
WellSpaced(onsets) ==
    \A k \in 1 .. (Len(onsets) - 1) : onsets[k + 1] - onsets[k] >= 120

\* C30: when the bass onsets are strictly increasing and at least 0.12 s
\* apart, the chart generateFromBands returns has exactly one note per bass
\* onset, at the onset's time and in the onsets' order, and any two consecutive
\* notes less than 0.2 s apart are in different lanes, whatever Math.random()
\* returned.
C30_NothingDropped ==
    (Returned("generateFromBands") /\ WellSpaced(generator.bandOnsets.bass)) =>
        /\ Len(generator.result) = Len(generator.bandOnsets.bass)
        /\ \A k \in DOMAIN generator.result :
              generator.result[k].time = generator.bandOnsets.bass[k]
        /\ \A k \in 1 .. (Len(generator.result) - 1) :
              generator.result[k + 1].time - generator.result[k].time < 200 =>
                  generator.result[k + 1].lane # generator.result[k].lane

\* C30 witness: a chart of three notes from three onsets 0.12 s apart, the
\* third note back in the lane of the first
C30_Witness ==
    /\ Returned("generateFromBands")
    /\ WellSpaced(generator.bandOnsets.bass)
    /\ Len(generator.bandOnsets.bass) = 3
    /\ Len(generator.result) = 3
    /\ generator.result[2].time - generator.result[1].time < 200
    /\ generator.result[3].lane = generator.result[1].lane

-----------------------------------------------------------------------------
\* C31: from the same engine state and clock value, judgeNote(l) and
\* judgeNoteMultiLane([l]) leave the engine in the same state: the same note
\* marked hit (or none) and the same score, combo, maxCombo and counters.
C31_SingleLaneEquivalent ==
    \A i \in DOMAIN engines : \A l \in Lanes :
        judgeNote(engines[i], l, now) = judgeNoteMultiLane(engines[i], {l}, now)

\* C31 witness: a press on one lane hits a note, and the same press on all lanes
\* would have hit a different note
C31_Witness ==
    \E i \in DOMAIN engines : \E l \in Lanes :
        /\ engines[i].isPlaying
        /\ judgeNote(engines[i], l, now) # engines[i]
        /\ judgeNoteMultiLane(engines[i], {l}, now) # engines[i]
        /\ judgeNoteMultiLane(engines[i], Lanes, now) # judgeNote(engines[i], l, now)

====
